---- MODULE Spec2Model ----
(***************************************************************************)
(* DeepMDPAgent (agent/deepmdp_agent.py): the update orchestration, the    *)
(* target-critic synchronisation, action selection and persistence.        *)
(*                                                                         *)
(* The agent is the record `self`.  Network weights are fixed-point        *)
(* integers, one per parameter group.  An optimizer step moves every       *)
(* parameter that has a gradient by one learning-rate unit against the     *)
(* sign of its gradient (Adam's step is of size lr whatever the gradient's *)
(* magnitude).  The networks themselves (sac_ae.py, transition_model.py,   *)
(* decoder.py, utils.py) are outside this file; their forward passes are   *)
(* small affine maps of their weights.                                     *)
(***************************************************************************)
EXTENDS Integers, Sequences, FiniteSets, TLC

VARIABLES
    pc,         \* the training loop: "idle" between calls, "returned" with a
                \* call's result in hand
    self,       \* the DeepMDPAgent object
    zero_grad_keeps_tensor,
                \* the installed torch: zero_grad() zeroes a gradient tensor
                \* (TRUE) or resets it to None (FALSE)
    files,      \* the model directory: file name -> state dict
    last,       \* the call that returned last: [op, arg, out]
    call,       \* when that call was update: its batch, outcome and trace
    target_Q,   \* when that call was update_critic alone: its target
    at_save,    \* history: the agent as it was at the last save(dir, s)
    calls       \* update and save calls so far

vars == <<pc, self, zero_grad_keeps_tensor, files, last, call, target_Q,
          at_save, calls>>

----------------------------------------------------------------------------
\* Bounds.
MaxCalls == 3      \* update and save calls in one behaviour
MaxStep == 2       \* largest step counter a caller passes to update
TauScale == 4      \* a tau is a multiple of 1/TauScale
MaxWeight == 2     \* largest weight drawn for a critic in isolation

\* Hyper-parameters in fixed point.
lr == 4                \* actor_lr, critic_lr, encoder_lr, decoder_lr
alpha_lr == 1          \* alpha_lr, in units of log_alpha
discount == 99         \* discount, in units of 1/DiscountScale
DiscountScale == 100
critic_tau == 1        \* critic_tau, in units of 1/TauScale
encoder_tau == 2       \* encoder_tau, in units of 1/TauScale
init_log_alpha == 1    \* log(init_temperature)
action_dim == 2        \* action_shape[0]

\* (actor_update_freq, critic_target_update_freq, decoder_update_freq)
UpdateFreqs == {<<2, 2, 1>>, <<1, 2, 2>>}
DecoderTypes == {"pixel", "reconstruction", "identity"}
SaveSteps == {0, 1}
Observations == {0, 1}
Noise == {0, 1}
ObsDims == {2, 4}
Rewards == {0, 3}
Discounts == {50, 99}
Weights == -MaxWeight .. MaxWeight

None == <<>>
Some(x) == <<x>>
Val(o) == o[1]

action_shape == <<action_dim>>

RECURSIVE prod(_)
prod(s) == IF s = <<>> THEN 1 ELSE Head(s) * prod(Tail(s))

Min(a, b) == IF a <= b THEN a ELSE b

----------------------------------------------------------------------------
\* Forward passes and numeric helpers of the collaborators.

\* exp, rounded down to the fixed-point grid.
Exp(x) == IF x < 0 THEN 0 ELSE 2 ^ x

\* The alpha property.
alpha(s) == Exp(s.log_alpha)

\* The encoder maps an observation to a latent.
encoder_forward(enc, obs) == enc + obs

\* Critic(obs, action): the twin heads on the encoder's latent.
critic_forward(c, obs, action) ==
    [Q1 |-> c.Q1 + encoder_forward(c.encoder, obs) + action,
     Q2 |-> c.Q2 + encoder_forward(c.encoder, obs) - action]

\* Actor(obs): the policy mean; a sample is the mean plus the drawn noise.
actor_mu(a, obs) == a + 2 * obs
actor_pi(a, obs, eps) == actor_mu(a, obs) + eps
actor_log_pi(eps) == 1 - 2 * eps * eps

\* One optimizer step on a parameter whose gradient has sign g.
Adam(param, g, rate) == param - rate * g

\* utils.soft_update_params, per parameter: an exponential moving average.
soft_update_params(net, target_net, tau) ==
    ((TauScale - tau) * target_net + tau * net) \div TauScale

\* A parameter the optimizer owns but the current loss does not reach: its
\* gradient is None and the step skips it, unless zero_grad left a zero tensor
\* from an earlier backward pass, in which case Adam's moving average of the
\* earlier gradients (sign m) still moves it.
StepWithoutGrad(param, m, rate) ==
    IF zero_grad_keeps_tensor THEN Adam(param, m, rate) ELSE param

----------------------------------------------------------------------------
\* Construction.

\* __init__ with the given frequencies and decoder type.
DeepMDPAgent(af, tf, df, decoder_type) ==
    LET critic == [Q1 |-> 0, Q2 |-> 0, encoder |-> 8]
    IN  [reconstruction |-> (decoder_type = "reconstruction"),
         discount |-> discount,
         critic_tau |-> critic_tau,
         encoder_tau |-> encoder_tau,
         actor_update_freq |-> af,
         critic_target_update_freq |-> tf,
         decoder_update_freq |-> df,
         actor |-> 0,
         critic |-> critic,
         critic_target |-> critic,
         transition_model |-> 0,
         reward_decoder |-> 0,
         log_alpha |-> init_log_alpha,
         target_entropy |-> -prod(action_shape),
         decoder |-> IF decoder_type \in {"pixel", "reconstruction"}
                       THEN Some(0) ELSE None,
         optim |-> [actor_optimizer |-> 0, critic_optimizer |-> 0,
                    log_alpha_optimizer |-> 0, encoder_optimizer |-> 0,
                    decoder_optimizer |-> 0],
         moment |-> [decoder |-> 0, transition_model |-> 0,
                     reward_decoder |-> 0]]

\* A sampled batch: b.next_obs_dim is next_obs.dim() and b.g the sign of the
\* loss gradients the batch produces; reward and not_done are the fields of
\* one of its transitions.
Batches == [reward : Rewards, not_done : {0, 1}, next_obs_dim : ObsDims,
            g : {-1, 1}]
NoCall == [op |-> "none", arg |-> 0, out |-> 0]
NoUpdate == [raised |-> FALSE, pre |-> None, trace |-> <<>>]
FileNames == {"actor", "critic", "decoder"} \X SaveSteps

Init ==
    /\ \E f \in UpdateFreqs, decoder_type \in DecoderTypes :
          self = DeepMDPAgent(f[1], f[2], f[3], decoder_type)
    /\ zero_grad_keeps_tensor \in BOOLEAN
    /\ pc = "idle"
    /\ files = [f \in FileNames |-> None]
    /\ last = NoCall
    /\ call = NoUpdate
    /\ target_Q = None
    /\ at_save = [s \in SaveSteps |-> None]
    /\ calls = 0

----------------------------------------------------------------------------
\* The update procedures.  Each maps the agent before the procedure to the
\* agent after it; b is the sampled batch and eps the noise the policy draws.

next_obs == 1

\* Lines 189-190.
target_V_of(s, target_Q1, target_Q2, log_pi) ==
    Min(target_Q1, target_Q2) - alpha(s) * log_pi

\* The target without the not_done mask.
target_Q_unmasked(s, reward, not_done, target_V) ==
    reward + (s.discount * target_V) \div DiscountScale

target_Q_of(s, reward, not_done, target_V) ==
    reward + (not_done * s.discount * target_V) \div DiscountScale

\* Lines 186-190: the regression target update_critic computes.
critic_target_Q(s, b, eps) ==
    LET policy_action == actor_pi(s.actor, next_obs, eps)
        log_pi == actor_log_pi(eps)
        t == critic_forward(s.critic_target, next_obs, policy_action)
    IN  target_Q_of(s, b.reward, b.not_done,
                    target_V_of(s, t.Q1, t.Q2, log_pi))

update_critic(s, b, eps) ==
    [s EXCEPT !.critic = [Q1 |-> Adam(@.Q1, b.g, lr),
                          Q2 |-> Adam(@.Q2, -b.g, lr),
                          encoder |-> Adam(@.encoder, b.g, lr)],
              !.optim.critic_optimizer = @ + 1]

\* The actor loss with the encoder left attached: the critic's encoder gets a
\* gradient and the actor optimizer, which would own the tied weights, moves it.
update_actor_and_alpha_attached(s, b) ==
    [s EXCEPT !.actor = Adam(@, b.g, lr),
              !.critic.encoder = Adam(@, b.g, lr),
              !.optim.actor_optimizer = @ + 1,
              !.log_alpha = Adam(@, b.g, alpha_lr),
              !.optim.log_alpha_optimizer = @ + 1]

update_actor_and_alpha(s, b) ==
    [s EXCEPT !.actor = Adam(@, b.g, lr),
              !.optim.actor_optimizer = @ + 1,
              !.log_alpha = Adam(@, b.g, alpha_lr),
              !.optim.log_alpha_optimizer = @ + 1]

\* The transition/reward update stepping the encoder optimizer alone.
update_transition_reward_model_encoder_only(s, b) ==
    [s EXCEPT !.critic.encoder = Adam(@, b.g, lr),
              !.optim.encoder_optimizer = @ + 1]

update_transition_reward_model(s, b) ==
    [s EXCEPT !.critic.encoder = Adam(@, b.g, lr),
              !.transition_model = Adam(@, b.g, lr),
              !.reward_decoder = Adam(@, b.g, lr),
              !.decoder = IF @ = None THEN None
                          ELSE Some(StepWithoutGrad(Val(@), s.moment.decoder, lr)),
              !.moment.transition_model = b.g,
              !.moment.reward_decoder = b.g,
              !.optim.encoder_optimizer = @ + 1,
              !.optim.decoder_optimizer = @ + 1]

\* update_decoder with the rank checked after the optimizer steps.
update_decoder_checked_late(s, b) ==
    [raised |-> b.next_obs_dim # 4,
     self |-> [s EXCEPT !.critic.encoder = Adam(@, -b.g, lr),
                        !.decoder = Some(Adam(Val(@), b.g, lr)),
                        !.moment.decoder = b.g,
                        !.optim.encoder_optimizer = @ + 1,
                        !.optim.decoder_optimizer = @ + 1]]

\* update_decoder either raises at its assertion or returns.
update_decoder(s, b) ==
    IF b.next_obs_dim # 4
    THEN [raised |-> TRUE, self |-> s]
    ELSE [raised |-> FALSE,
          self |->
            [s EXCEPT
               !.critic.encoder = Adam(@, -b.g, lr),
               !.decoder = Some(Adam(Val(@), b.g, lr)),
               !.transition_model =
                   IF s.reconstruction
                   THEN StepWithoutGrad(@, s.moment.transition_model, lr)
                   ELSE Adam(@, -b.g, lr),
               !.reward_decoder =
                   StepWithoutGrad(@, s.moment.reward_decoder, lr),
               !.moment.decoder = b.g,
               !.moment.transition_model =
                   IF s.reconstruction THEN @ ELSE -b.g,
               !.optim.encoder_optimizer = @ + 1,
               !.optim.decoder_optimizer = @ + 1]]

\* The three sweeps with critic_tau throughout.
soft_update_one_tau(s) ==
    [s EXCEPT
       !.critic_target.Q1 = soft_update_params(s.critic.Q1, @, s.critic_tau),
       !.critic_target.Q2 = soft_update_params(s.critic.Q2, @, s.critic_tau),
       !.critic_target.encoder =
           soft_update_params(s.critic.encoder, @, s.critic_tau)]

\* Lines 300-308: the three sweeps over the target critic.
soft_update(s) ==
    [s EXCEPT
       !.critic_target.Q1 = soft_update_params(s.critic.Q1, @, s.critic_tau),
       !.critic_target.Q2 = soft_update_params(s.critic.Q2, @, s.critic_tau),
       !.critic_target.encoder =
           soft_update_params(s.critic.encoder, @, s.encoder_tau)]

\* The actor gate opening one step late.
actor_gate_late(s, step) == step % s.actor_update_freq = s.actor_update_freq - 1

\* Lines 296, 299 and 310-311: the three gates.
actor_gate(s, step) == step % s.actor_update_freq = 0
target_gate(s, step) == step % s.critic_target_update_freq = 0
decoder_gate(s, step) == s.decoder # None /\ step % s.decoder_update_freq = 0

\* One entry of a call's trace: the procedure and the agent as it left it.
Ran(proc, after) == [proc |-> proc, after |-> after]

\* update with the target synchronised before the transition/reward update.
update_target_first(s, step, b, eps) ==
    LET s1 == update_critic(s, b, eps)
        s2 == IF target_gate(s1, step) THEN soft_update(s1) ELSE s1
        s3 == update_transition_reward_model(s2, b)
    IN  [self |-> s3,
         raised |-> FALSE,
         trace |->
            <<Ran("update_critic", s1)>>
            \o (IF target_gate(s1, step)
                THEN <<Ran("soft_update_params", s2)>> ELSE <<>>)
            \o <<Ran("update_transition_reward_model", s3)>>]

\* update(replay_buffer, L, step): the agent it leaves, whether it raised, and
\* the procedures it ran, in order.
update(s, step, b, eps) ==
    LET s1 == update_critic(s, b, eps)
        s2 == update_transition_reward_model(s1, b)
        s3 == IF actor_gate(s2, step) THEN update_actor_and_alpha(s2, b) ELSE s2
        s4 == IF target_gate(s3, step) THEN soft_update(s3) ELSE s3
        d  == IF decoder_gate(s4, step) THEN update_decoder(s4, b)
              ELSE [raised |-> FALSE, self |-> s4]
    IN  [self |-> d.self,
         raised |-> d.raised,
         trace |->
            <<Ran("update_critic", s1),
              Ran("update_transition_reward_model", s2)>>
            \o (IF actor_gate(s2, step)
                THEN <<Ran("update_actor_and_alpha", s3)>> ELSE <<>>)
            \o (IF target_gate(s3, step)
                THEN <<Ran("soft_update_params", s4)>> ELSE <<>>)
            \o (IF decoder_gate(s4, step)
                THEN <<Ran("update_decoder", d.self)>> ELSE <<>>)]

----------------------------------------------------------------------------
\* The agent's operations, as the training loop calls them.

Update ==
    /\ pc = "idle"
    /\ calls < MaxCalls
    /\ \E step \in 0 .. MaxStep, b \in Batches, eps \in Noise :
          LET r == update(self, step, b, eps)
          IN  /\ self' = r.self
              /\ last' = [op |-> "update", arg |-> step, out |-> 0]
              /\ call' = [raised |-> r.raised, pre |-> Some(self),
                          trace |-> r.trace]
    /\ pc' = "returned"
    /\ calls' = calls + 1
    /\ UNCHANGED <<zero_grad_keeps_tensor, files, target_Q, at_save>>

\* select_action returning the sample instead of the mean.
select_action_sampled ==
    /\ \/ pc = "idle"
       \/ pc = "returned" /\ last.op \in {"select_action", "sample_action"}
    /\ \E obs \in Observations, eps \in Noise :
          last' = [op |-> "select_action", arg |-> obs,
                   out |-> actor_pi(self.actor, obs, eps)]
    /\ pc' = "returned"
    /\ UNCHANGED <<self, zero_grad_keeps_tensor, files, call, target_Q,
                   at_save, calls>>

\* The evaluation loop asks for action after action.
select_action ==
    /\ \/ pc = "idle"
       \/ pc = "returned" /\ last.op \in {"select_action", "sample_action"}
    /\ \E obs \in Observations :
          last' = [op |-> "select_action", arg |-> obs,
                   out |-> actor_mu(self.actor, obs)]
    /\ pc' = "returned"
    /\ UNCHANGED <<self, zero_grad_keeps_tensor, files, call, target_Q,
                   at_save, calls>>

sample_action ==
    /\ pc = "idle"
    /\ \E obs \in Observations, eps \in Noise :
          last' = [op |-> "sample_action", arg |-> obs,
                   out |-> actor_pi(self.actor, obs, eps)]
    /\ pc' = "returned"
    /\ UNCHANGED <<self, zero_grad_keeps_tensor, files, call, target_Q,
                   at_save, calls>>

\* "%s/actor_%s.pt" % (model_dir, step) and its two siblings.
FileName(component, step) == <<component, step>>

save ==
    /\ pc = "idle"
    /\ calls < MaxCalls
    /\ \E step \in SaveSteps :
          /\ files' = [f \in FileNames |->
                         IF f = FileName("actor", step) THEN Some(self.actor)
                         ELSE IF f = FileName("critic", step)
                              THEN Some(self.critic)
                         ELSE IF f = FileName("decoder", step)
                                 /\ self.decoder # None
                              THEN Some(self.decoder)
                         ELSE files[f]]
          /\ at_save' = [at_save EXCEPT ![step] = Some(self)]
          /\ last' = [op |-> "save", arg |-> step, out |-> 0]
    /\ pc' = "returned"
    /\ calls' = calls + 1
    /\ UNCHANGED <<self, zero_grad_keeps_tensor, call, target_Q>>

\* load restoring the target critic from the critic's file as well.
load_with_target ==
    /\ pc = "idle"
    /\ \E step \in SaveSteps :
          /\ files[FileName("actor", step)] # None
          /\ files[FileName("critic", step)] # None
          /\ self' =
               [self EXCEPT
                  !.actor = Val(files[FileName("actor", step)]),
                  !.critic = Val(files[FileName("critic", step)]),
                  !.critic_target = Val(files[FileName("critic", step)])]
          /\ last' = [op |-> "load", arg |-> step, out |-> 0]
    /\ pc' = "returned"
    /\ UNCHANGED <<zero_grad_keeps_tensor, files, call, target_Q, at_save,
                   calls>>

\* load without the decoder branch.
load_without_decoder ==
    /\ pc = "idle"
    /\ \E step \in SaveSteps :
          /\ files[FileName("actor", step)] # None
          /\ files[FileName("critic", step)] # None
          /\ self' =
               [self EXCEPT
                  !.actor = Val(files[FileName("actor", step)]),
                  !.critic = Val(files[FileName("critic", step)])]
          /\ last' = [op |-> "load", arg |-> step, out |-> 0]
    /\ pc' = "returned"
    /\ UNCHANGED <<zero_grad_keeps_tensor, files, call, target_Q, at_save,
                   calls>>

\* torch.load of a missing file raises before anything is restored; the files
\* of one step are written together, so a load either finds all or none.
load ==
    /\ pc = "idle"
    /\ \E step \in SaveSteps :
          /\ files[FileName("actor", step)] # None
          /\ files[FileName("critic", step)] # None
          /\ self.decoder # None => files[FileName("decoder", step)] # None
          /\ self' =
               [self EXCEPT
                  !.actor = Val(files[FileName("actor", step)]),
                  !.critic = Val(files[FileName("critic", step)]),
                  !.decoder = IF @ # None
                              THEN Val(files[FileName("decoder", step)])
                              ELSE @]
          /\ last' = [op |-> "load", arg |-> step, out |-> 0]
    /\ pc' = "returned"
    /\ UNCHANGED <<zero_grad_keeps_tensor, files, call, target_Q, at_save,
                   calls>>

\* The training loop takes the result and goes on to its next call.
proceed ==
    /\ pc = "returned"
    /\ pc' = "idle"
    /\ last' = NoCall
    /\ call' = NoUpdate
    /\ target_Q' = None
    /\ UNCHANGED <<self, zero_grad_keeps_tensor, files, at_save, calls>>

Next ==
    \/ Update
    \/ select_action
    \/ sample_action
    \/ save
    \/ load
    \/ proceed

Spec == Init /\ [][Next]_vars

----------------------------------------------------------------------------
\* update_critic on its own, on an agent whose target critic, temperature
\* and discount are drawn from bounded sets.

InitCritic ==
    /\ \E q1 \in Weights, q2 \in Weights, e \in {0, 8}, la \in Weights,
          d \in Discounts :
          self = [DeepMDPAgent(2, 2, 1, "pixel") EXCEPT
                    !.critic_target = [Q1 |-> q1, Q2 |-> q2, encoder |-> e],
                    !.log_alpha = la,
                    !.discount = d]
    /\ zero_grad_keeps_tensor = FALSE
    /\ pc = "idle"
    /\ files = [f \in FileNames |-> None]
    /\ last = NoCall
    /\ call = NoUpdate
    /\ target_Q = None
    /\ at_save = [s \in SaveSteps |-> None]
    /\ calls = 0

UpdateCritic ==
    /\ pc = "idle"
    /\ \E b \in Batches, eps \in Noise :
          /\ self' = update_critic(self, b, eps)
          /\ target_Q' = Some([reward |-> b.reward, not_done |-> b.not_done,
                                eps |-> eps,
                                value |-> critic_target_Q(self, b, eps)])
    /\ last' = [op |-> "update_critic", arg |-> 0, out |-> 0]
    /\ pc' = "returned"
    /\ UNCHANGED <<zero_grad_keeps_tensor, files, call, at_save, calls>>

SpecCritic == InitCritic /\ [][UpdateCritic]_vars

----------------------------------------------------------------------------
\* Properties of update.

\* The update call that has just returned or raised.
UpdateEnded == pc = "returned" /\ last.op = "update"
Completed == UpdateEnded /\ ~call.raised
Raised == UpdateEnded /\ call.raised

\* Where in the call's trace a procedure ran, and the agent it started from.
Steps(proc) == {i \in 1 .. Len(call.trace) : call.trace[i].proc = proc}
Before(i) == IF i = 1 THEN Val(call.pre) ELSE call.trace[i - 1].after
After(i) == call.trace[i].after
Times(open) == IF open THEN 1 ELSE 0

\* C1: in a completed update(step) the critic update and the
\* transition/reward update run exactly once; the actor/alpha update runs
\* iff step mod actor_update_freq = 0, the soft-update iff
\* step mod critic_target_update_freq = 0, the decoder update iff a decoder
\* exists and step mod decoder_update_freq = 0.
C1_UpdateSchedule ==
    Completed =>
      /\ Cardinality(Steps("update_critic")) = 1
      /\ Cardinality(Steps("update_transition_reward_model")) = 1
      /\ Cardinality(Steps("update_actor_and_alpha")) =
            Times(last.arg % self.actor_update_freq = 0)
      /\ Cardinality(Steps("soft_update_params")) =
            Times(last.arg % self.critic_target_update_freq = 0)
      /\ Cardinality(Steps("update_decoder")) =
            Times(self.decoder # None
                  /\ last.arg % self.decoder_update_freq = 0)

\* With actor_update_freq = 2: step 1 completed without the actor/alpha
\* update and without the soft-update, and with the decoder update.
C1_Witness ==
    /\ Completed
    /\ self.actor_update_freq = 2
    /\ last.arg = 1
    /\ Steps("update_actor_and_alpha") = {}
    /\ Steps("soft_update_params") = {}
    /\ Steps("update_decoder") # {}

\* With actor_update_freq = 2: step 0 completed with the actor/alpha update.
C1_WitnessStep0 ==
    /\ Completed
    /\ self.actor_update_freq = 2
    /\ last.arg = 0
    /\ Steps("update_actor_and_alpha") # {}

\* The procedures that write the online critic's encoder.
EncoderWriters ==
    {"update_critic", "update_transition_reward_model", "update_decoder"}

\* C2 as stated: in a call in which the soft-update runs, the critic update
\* and the transition/reward update come first, and the encoder the sweep
\* reads is the one the last encoder-writing procedure of the call leaves.
C2_EmaReadsFreshestEncoder ==
    UpdateEnded =>
      \A i \in Steps("soft_update_params") :
         /\ \E j \in Steps("update_critic") : j < i
         /\ \E j \in Steps("update_transition_reward_model") : j < i
         /\ \A j \in 1 .. Len(call.trace) :
               call.trace[j].proc \in EncoderWriters
               => (\/ \E k \in j + 1 .. Len(call.trace) :
                         call.trace[k].proc \in EncoderWriters
                   \/ Before(i).critic.encoder = After(j).critic.encoder)

\* C2 amended: the critic update and the transition/reward update come before
\* the soft-update, which reads the online encoder as the transition/reward
\* update left it; a decoder update of the same call comes after the sweep.
C2_EmaReadsEncoderOfTransitionUpdate ==
    UpdateEnded =>
      \A i \in Steps("soft_update_params") :
         /\ \E j \in Steps("update_critic") : j < i
         /\ \E j \in Steps("update_transition_reward_model") :
               /\ j < i
               /\ Before(i).critic.encoder = After(j).critic.encoder
               /\ After(i).critic_target.encoder =
                     soft_update_params(After(j).critic.encoder,
                                        Before(i).critic_target.encoder,
                                        self.encoder_tau)
         /\ \A j \in Steps("update_decoder") : i < j

\* A completed call whose sweep read an encoder that the decoder update then
\* moved.
C2_Witness ==
    /\ Completed
    /\ \E i \in Steps("soft_update_params") :
          /\ Steps("update_decoder") # {}
          /\ Before(i).critic.encoder # self.critic.encoder
          /\ After(i).critic_target.encoder # Before(i).critic_target.encoder

\* C3 as stated: an update call that aborts leaves every parameter and all
\* optimizer state as they were before the call.
C3_AbortLeavesNothing == Raised => self = Val(call.pre)

\* C3 amended: update_decoder alone is all-or-nothing (its assertion comes
\* first, so a failing call of it changes nothing), while the steps update
\* took before it stay applied; a call that does not abort leaves the agent
\* of its last procedure.
C3_AbortKeepsEarlierSteps ==
    /\ Raised =>
         LET n == Len(call.trace)
             p == Val(call.pre)
         IN  /\ call.trace[n].proc = "update_decoder"
             /\ After(n) = Before(n)
             /\ self = Before(n)
             /\ self.optim.critic_optimizer = p.optim.critic_optimizer + 1
             /\ self.optim.encoder_optimizer = p.optim.encoder_optimizer + 1
             /\ self.optim.decoder_optimizer = p.optim.decoder_optimizer + 1
             /\ self.optim.actor_optimizer = p.optim.actor_optimizer
                   + Times(last.arg % self.actor_update_freq = 0)
             /\ self.critic # p.critic
             /\ last.arg % self.critic_target_update_freq = 0
                   => Steps("soft_update_params") # {}
    /\ Completed => self = After(Len(call.trace))

\* An aborted call in which the actor/alpha update and the soft-update ran.
C3_Witness ==
    /\ Raised
    /\ Steps("update_actor_and_alpha") # {}
    /\ Steps("soft_update_params") # {}
    /\ self.critic_target # Val(call.pre).critic_target
    /\ self.actor # Val(call.pre).actor

\* C10: in a completed update(step) the critic optimizer steps once; the
\* encoder and the decoder optimizer step once in the transition/reward
\* update and once more iff the decoder update runs; the actor and the alpha
\* optimizer step once iff the actor gate is open.  So the decoder optimizer
\* steps in every call.
C10_OptimizerSteps ==
    Completed =>
      LET p == Val(call.pre).optim
          q == self.optim
          dec == Times(self.decoder # None
                       /\ last.arg % self.decoder_update_freq = 0)
          act == Times(last.arg % self.actor_update_freq = 0)
      IN  /\ q.critic_optimizer = p.critic_optimizer + 1
          /\ q.encoder_optimizer = p.encoder_optimizer + 1 + dec
          /\ q.decoder_optimizer = p.decoder_optimizer + 1 + dec
          /\ q.actor_optimizer = p.actor_optimizer + act
          /\ q.log_alpha_optimizer = p.log_alpha_optimizer + act
          /\ \A i \in Steps("update_transition_reward_model") :
                /\ After(i).optim.encoder_optimizer
                      = Before(i).optim.encoder_optimizer + 1
                /\ After(i).optim.decoder_optimizer
                      = Before(i).optim.decoder_optimizer + 1

\* A completed call with a decoder and a closed decoder gate: the decoder
\* optimizer stepped once all the same.
C10_Witness ==
    /\ Completed
    /\ self.decoder # None
    /\ last.arg % self.decoder_update_freq # 0
    /\ self.optim.decoder_optimizer
          = Val(call.pre).optim.decoder_optimizer + 1

----------------------------------------------------------------------------
\* Properties of update_critic, the soft-update and update_actor_and_alpha.

\* C4: the target update_critic regresses to is
\* reward + not_done * discount * (min(target_Q1, target_Q2) - alpha * log_pi)
\* with the twin values of the target critic; with not_done = 0 it is the
\* reward.
C4_CriticTarget ==
    (pc = "returned" /\ last.op = "update_critic") =>
      LET t == Val(target_Q)
          q == critic_forward(self.critic_target, next_obs,
                              actor_pi(self.actor, next_obs, t.eps))
          v == Min(q.Q1, q.Q2) - Exp(self.log_alpha) * actor_log_pi(t.eps)
      IN  /\ t.value
                = t.reward + (t.not_done * self.discount * v) \div DiscountScale
          /\ t.not_done = 0 => t.value = t.reward

\* A terminal transition whose bootstrap term would not have been zero.
C4_Witness ==
    /\ pc = "returned"
    /\ last.op = "update_critic"
    /\ Val(target_Q).not_done = 0
    /\ Val(target_Q).reward = 3
    /\ Val(target_Q).value = 3
    /\ self.critic_target.Q1 < self.critic_target.Q2
    /\ self.critic_target # self.critic
    /\ Exp(self.log_alpha) > 1

\* C7: a soft-update takes each target Q-head parameter to
\* (1 - critic_tau) * old + critic_tau * online and each target encoder
\* parameter to (1 - encoder_tau) * old + encoder_tau * online, online being
\* the online critic at that moment, and changes nothing else.
C7_SoftUpdate ==
    UpdateEnded =>
      \A i \in Steps("soft_update_params") :
         LET b == Before(i)
             a == After(i)
         IN  /\ a.critic_target.Q1 =
                   ((TauScale - b.critic_tau) * b.critic_target.Q1
                    + b.critic_tau * b.critic.Q1) \div TauScale
             /\ a.critic_target.Q2 =
                   ((TauScale - b.critic_tau) * b.critic_target.Q2
                    + b.critic_tau * b.critic.Q2) \div TauScale
             /\ a.critic_target.encoder =
                   ((TauScale - b.encoder_tau) * b.critic_target.encoder
                    + b.encoder_tau * b.critic.encoder) \div TauScale
             /\ a.critic = b.critic
             /\ a = [b EXCEPT !.critic_target = a.critic_target]

\* A sweep that moved a Q-head and the encoder of a target that had already
\* parted from the online critic.
C7_Witness ==
    /\ UpdateEnded
    /\ \E i \in Steps("soft_update_params") :
          /\ Val(call.pre).critic_target # Val(call.pre).critic
          /\ After(i).critic_target.Q1 # Before(i).critic_target.Q1
          /\ After(i).critic_target.encoder # Before(i).critic_target.encoder

----------------------------------------------------------------------------
\* Properties across calls.

\* C5: the target critic starts as a copy of the online critic and changes
\* only in an update(step) with step mod critic_target_update_freq = 0, and
\* then to what the soft-update of that call made of it.
C5_TargetOnlySoftUpdated ==
    /\ self.critic_target = self.critic
    /\ [][self'.critic_target # self.critic_target =>
            /\ last'.op = "update"
            /\ last'.arg % self.critic_target_update_freq = 0
            /\ \E i \in 1 .. Len(call'.trace) :
                  /\ call'.trace[i].proc = "soft_update_params"
                  /\ call'.trace[i].after.critic_target = self'.critic_target
                  /\ call'.trace[i - 1].after.critic_target
                        = self.critic_target]_vars

\* A load that found a target critic the soft-update had moved, and left it.
C5_Witness ==
    /\ pc = "returned"
    /\ last.op = "load"
    /\ self.critic_target # DeepMDPAgent(2, 2, 1, "pixel").critic_target
    /\ self.critic_target # self.critic

\* C6: save(dir, s) writes the actor's, the critic's and (if there is one)
\* the decoder's state under names made of the component and s; load(dir, s)
\* takes the three back to what they were at save(dir, s), whatever update
\* did in between.
C6_LoadRestoresSave ==
    /\ (pc = "returned" /\ last.op = "save") =>
         /\ files[<<"actor", last.arg>>] = Some(self.actor)
         /\ files[<<"critic", last.arg>>] = Some(self.critic)
         /\ files[<<"decoder", last.arg>>] =
               (IF self.decoder = None THEN None ELSE Some(self.decoder))
    /\ (pc = "returned" /\ last.op = "load") =>
         LET then == Val(at_save[last.arg])
         IN  /\ self.actor = then.actor
             /\ self.critic = then.critic
             /\ self.decoder = then.decoder

\* A load after updates that followed the save, with a decoder.
C6_Witness ==
    /\ pc = "returned"
    /\ last.op = "load"
    /\ self.decoder # None
    /\ self.optim.decoder_optimizer
          > Val(at_save[last.arg]).optim.decoder_optimizer + 1
    /\ self.optim.actor_optimizer
          > Val(at_save[last.arg]).optim.actor_optimizer

\* C8: select_action changes nothing of the agent or the model directory,
\* returns the policy mean, and returns the same output when asked again
\* with the same observation.
C8_SelectActionReadOnly ==
    [][(last'.op = "select_action" /\ pc' = "returned") =>
          /\ self' = self
          /\ files' = files
          /\ last'.out = actor_mu(self.actor, last'.arg)
          /\ (last.op = "select_action" /\ last.arg = last'.arg)
                => last'.out = last.out]_vars

\* select_action on an actor that update has moved.
C8_Witness ==
    /\ pc = "returned"
    /\ last.op = "select_action"
    /\ last.arg = 1
    /\ self.optim.actor_optimizer > 0
    /\ last.out = self.actor + 2

====
